---- MODULE Spec2Model ----
(***************************************************************************)
(* DictionaryDash: shortest word ladders between two words of a            *)
(* dictionary (src/DictionaryDash.py).                                     *)
(*                                                                         *)
(* A word is a sequence of characters.  The caller owns one list of words, *)
(* `dictionary`.  The model follows one caller that may construct a        *)
(* DictionaryDash over that list and query it, look words up in its        *)
(* OrganisedDictionary, call the module-level lengthOfShortestTransform    *)
(* (which builds its own DictionaryDash over the same list), and call      *)
(* legalTransformation.  One instance is alive at a time: constructing a   *)
(* new one drops the previous one.                                         *)
(*                                                                         *)
(* Python iterates a set in an order the program does not control; every   *)
(* such iteration is modelled as a choice among all orders.                *)
(***************************************************************************)
EXTENDS Integers, Sequences, FiniteSets, TLC

----------------------------------------------------------------------------
(* Bounds of the model *)

\* longest word the caller uses
MaxLen == 2
\* longest dictionary the caller constructs a DictionaryDash from
MaxDict == 4
\* longest dictionary the caller hands to lengthOfShortestTransform
MaxGiven == 2
\* number of queries and lookups the caller makes on one DictionaryDash
MaxCalls == 2
\* longest word the caller hands to legalTransformation
MaxLegalLen == 3
\* size of the range of the string hash; small, so that distinct masked
\* words do collide
HashMod == 2

\* the characters of the caller's words; '_' is the wildcard of line 65
Alphabet == {"a", "_"}

----------------------------------------------------------------------------
(* Words and sequences *)

WordsOfLen(n) == [1..n -> Alphabet]

\* the non-empty words a dictionary or a query may hold
Words == UNION {WordsOfLen(n) : n \in 1..MaxLen}

\* the arguments of legalTransformation: the empty word too
AnyWords == UNION {WordsOfLen(n) : n \in 0..MaxLegalLen}

Range(s) == {s[i] : i \in DOMAIN s}

\* `x in s` for a Python list
In(x, s) == \E i \in DOMAIN s : s[i] = x

\* all the orders in which a set can be iterated
Perms(S) == {p \in [1..Cardinality(S) -> S] : \A i, j \in DOMAIN p : p[i] = p[j] => i = j}

Last(s) == s[Len(s)]

Front(s) == SubSeq(s, 1, Len(s) - 1)

----------------------------------------------------------------------------
(* legalTransformation, lines 4-26 *)

\* the loop of lines 19-24 from position idx on, with the early return
\* False of line 23
RECURSIVE MismatchScan(_, _, _, _)
MismatchScan(word1, word2, idx, foundMissmatch) ==
    IF idx > Len(word1) THEN foundMissmatch
    ELSE IF word1[idx] # word2[idx]
         THEN IF foundMissmatch THEN FALSE
              ELSE MismatchScan(word1, word2, idx + 1, TRUE)
         ELSE MismatchScan(word1, word2, idx + 1, foundMissmatch)

LegalTransformationNoSecond(word1, word2) ==
    IF Len(word1) # Len(word2) \/ Len(word1) < 1 THEN FALSE
    ELSE \E idx \in 1..Len(word1) : word1[idx] # word2[idx]

legalTransformation(word1, word2) ==
    IF Len(word1) # Len(word2) \/ Len(word1) < 1 THEN FALSE
    ELSE MismatchScan(word1, word2, 1, FALSE)

----------------------------------------------------------------------------
(* OrganisedDictionary, lines 29-92 *)

CharCode(c) == IF c = "_" THEN 2 ELSE 1

\* Python's hash of a string: a fixed function of its characters into a
\* finite range, in which different strings can share a number
RECURSIVE HashFrom(_, _, _)
HashFrom(s, i, h) ==
    IF i > Len(s) THEN h
    ELSE HashFrom(s, i + 1, (h * 3 + CharCode(s[i])) % HashMod)

Hash(s) == HashFrom(s, 1, Len(s) % HashMod)

\* line 65: word[:idx] + '_' + word[idx+1:]
EditWord(word, idx) == [i \in 1..Len(word) |-> IF i = idx THEN "_" ELSE word[i]]

GetAllWordHashNumbersShort(word) ==
    [idx \in 1..(Len(word) - 1) |-> Hash(EditWord(word, idx))]

\* lines 61-67: one hash number per letter position
GetAllWordHashNumbers(word) == [idx \in 1..Len(word) |-> Hash(EditWord(word, idx))]

SetDefaultAddOverwrite(hashed, hashNumber, word) ==
    [h \in (DOMAIN hashed) \cup {hashNumber} |->
        IF h = hashNumber THEN {word} ELSE hashed[h]]

\* line 50: hashedWords.setdefault(hashNumber, set()).add(word)
SetDefaultAdd(hashed, hashNumber, word) ==
    [h \in (DOMAIN hashed) \cup {hashNumber} |->
        IF h = hashNumber
        THEN (IF h \in DOMAIN hashed THEN hashed[h] ELSE {}) \cup {word}
        ELSE hashed[h]]

RECURSIVE AddHashes(_, _, _, _)

AddHashesFirstOnly(hashed, hashNumbers, i, word) ==
    IF i > Len(hashNumbers) THEN hashed
    ELSE SetDefaultAdd(hashed, hashNumbers[i], word)

\* lines 49-50 from the i-th hash number on
AddHashes(hashed, hashNumbers, i, word) ==
    IF i > Len(hashNumbers) THEN hashed
    ELSE AddHashes(SetDefaultAdd(hashed, hashNumbers[i], word), hashNumbers, i + 1, word)

EmptyIndex == [h \in {} |-> {}]

RECURSIVE BuildFrom(_, _, _, _)

BuildFromOnlyLonger(words, i, wordLength, hashed) ==
    IF i > Len(words) THEN [err |-> "none", hashed |-> hashed]
    ELSE IF Len(words[i]) > wordLength THEN [err |-> "ValueError", hashed |-> EmptyIndex]
         ELSE BuildFrom(words, i + 1, wordLength,
                        AddHashes(hashed, GetAllWordHashNumbers(words[i]), 1, words[i]))

\* lines 43-50 from word i on; err is "ValueError" when line 45 raises
BuildFrom(words, i, wordLength, hashed) ==
    IF i > Len(words) THEN [err |-> "none", hashed |-> hashed]
    ELSE IF Len(words[i]) # wordLength THEN [err |-> "ValueError", hashed |-> EmptyIndex]
         ELSE BuildFrom(words, i + 1, wordLength,
                        AddHashes(hashed, GetAllWordHashNumbers(words[i]), 1, words[i]))

\* OrganisedDictionary.__init__, lines 37-50
OrganisedDictionaryInit(words) ==
    IF Len(words) = 0 THEN [err |-> "none", hashed |-> EmptyIndex]
    ELSE BuildFrom(words, 1, Len(words[1]), EmptyIndex)

\* lines 83-84: the union of the buckets of the hash numbers
MatchingWords(hashed, hashNumbers) ==
    UNION {hashed[hashNumbers[i]] : i \in DOMAIN hashNumbers}

VerifiedNoCheck(word, matchingWords) == matchingWords

\* lines 86-91: the candidates that pass the re-check
Verified(word, matchingWords) ==
    {matchWord \in matchingWords : legalTransformation(word, matchWord)}

GetTransformableWordsUnchecked(words, hashed, word) ==
    LET hashNumbers == GetAllWordHashNumbers(word)
        present     == {i \in DOMAIN hashNumbers : hashNumbers[i] \in DOMAIN hashed}
    IN  [err |-> "none",
         words |-> Verified(word, UNION {hashed[hashNumbers[i]] : i \in present} \ {word})]

\* getTransformableWords, lines 69-92: the set of the words of the returned
\* list (the list is one of its orders), or the exception raised: the
\* assert of line 79, a missing key at line 84 or a missing element at
\* line 85
GetTransformableWords(words, hashed, word) ==
    IF ~In(word, words) THEN [err |-> "AssertionError", words |-> {}]
    ELSE LET hashNumbers == GetAllWordHashNumbers(word)
         IN  IF \E i \in DOMAIN hashNumbers : hashNumbers[i] \notin DOMAIN hashed
             THEN [err |-> "KeyError", words |-> {}]
             ELSE IF word \notin MatchingWords(hashed, hashNumbers)
                  THEN [err |-> "KeyError", words |-> {}]
                  ELSE [err |-> "none",
                        words |-> Verified(word, MatchingWords(hashed, hashNumbers) \ {word})]

IndexAfterLookupAliased(hashed, word) ==
    LET hashNumbers == GetAllWordHashNumbers(word)
    IN  [h \in DOMAIN hashed |->
            IF h = hashNumbers[1] THEN MatchingWords(hashed, hashNumbers) \ {word}
            ELSE hashed[h]]

\* lines 78-85 of a lookup that passed line 79: matchingWords is a set of
\* its own, so update and remove change no bucket
IndexAfterLookup(hashed, word) == hashed

----------------------------------------------------------------------------
(* State *)

VARIABLES
    dictionary,      \* the caller's list of words
    built,           \* a DictionaryDash over `dictionary` exists
    hashedWords,     \* its OrganisedDictionary.__hashedWords
    targetWord,      \* DictionaryDash.__targetWord: <<>> while unset, else <<word>>
    reachedWords,    \* DictionaryDash.__reachedWords
    heap,            \* the SearchPath objects of the query: heap[id] is __words of path id
    searchPaths,     \* DictionaryDash.__searchPaths, a list of path ids
    successfulPath,  \* DictionaryDash.__successfulPath: a path id, 0 for None
    finished,        \* DictionaryDash.__finished
    localPaths,      \* the local searchPaths of __extendPaths
    idx,             \* position of the for loop of line 195
    pc,              \* where the running operation stands
    op,              \* the operation running or last run
    args,            \* its arguments
    dict0,           \* the caller's list when it was called
    result,          \* what it returned or raised
    rounds,          \* invocations of __extendPaths in the query
    calls            \* operations performed so far

vars == <<dictionary, built, hashedWords, targetWord, reachedWords, heap, searchPaths,
          successfulPath, finished, localPaths, idx, pc, op, args, dict0, result,
          rounds, calls>>

instance == <<built, hashedWords>>

session == <<targetWord, reachedWords, heap, searchPaths, successfulPath, finished>>

round == <<localPaths, idx, rounds>>

\* results: kind is "none" (nothing returned yet), "None", "path", "int",
\* "bool", "list", "object" or "raise"
NoResult == [kind |-> "none", num |-> 0, words |-> <<>>, err |-> "none"]

Returned(kind, num, words) == [kind |-> kind, num |-> num, words |-> words, err |-> "none"]

Raised(err) == [kind |-> "raise", num |-> 0, words |-> <<>>, err |-> err]

NoArgs == [word1 |-> <<>>, word2 |-> <<>>]

\* the lists of at most n words
ListsUpTo(n) == UNION {[1..k -> Words] : k \in 0..n}

----------------------------------------------------------------------------
(* SearchPath, lines 95-147: path objects live in a heap, a list owns ids *)

\* SearchPath(firstWord), lines 101-104, allocated as the only object
NewHeap(firstWord) == <<<<firstWord>>>>

\* addWord, line 136
AddWord(h, id, word) == [h EXCEPT ![id] = Append(@, word)]

\* numTransformations, line 128
NumTransformations(words) == Len(words) - 1

MakeCopyShared(h, id) == [heap |-> h, id |-> id]

\* makeCopy, lines 144-147: a new object holding the same words
MakeCopy(h, id) == [heap |-> Append(h, h[id]), id |-> Len(h) + 1]

----------------------------------------------------------------------------
(* DictionaryDash.__extendPaths, lines 189-227 *)

ValidNextWordsUnfiltered(nextWords, reached) == nextWords

\* lines 198-202: the next words not reached yet, in the order of nextWords
ValidNextWords(nextWords, reached) ==
    LET NotReached(word) == ~In(word, reached)
    IN  SelectSeq(nextWords, NotReached)

TargetIsPopped(target, validNextWords) == target = Last(validNextWords)

\* line 206: the target is one of the valid next words
TargetFound(target, validNextWords) == In(target, validNextWords)

\* lines 216-221 from the i-th of the other next words on; st holds the
\* heap, the local searchPaths and the reached words
RECURSIVE BranchFrom(_, _, _, _)
BranchFromNoCopies(st, id, others, i) == st

BranchFrom(st, id, others, i) ==
    IF i > Len(others) THEN st
    ELSE LET copy == MakeCopy(st.heap, id)
         IN  BranchFrom([heap    |-> AddWord(copy.heap, copy.id, others[i]),
                         paths   |-> Append(st.paths, copy.id),
                         reached |-> Append(st.reached, others[i])],
                        id, others, i + 1)

ExtendAndBranchExtendFirst(h, paths, reached, id, validNextWords) ==
    LET word == Last(validNextWords)
        st   == BranchFrom([heap    |-> AddWord(h, id, word),
                            paths   |-> Append(paths, id),
                            reached |-> Append(reached, word)],
                           id, Front(validNextWords), 1)
    IN  st

ExtendAndBranchUnmarked(h, paths, reached, id, validNextWords) ==
    LET word == Last(validNextWords)
        st   == BranchFrom([heap |-> h, paths |-> Append(paths, id), reached |-> reached],
                           id, Front(validNextWords), 1)
    IN  [heap    |-> AddWord(st.heap, id, word),
         paths   |-> st.paths,
         reached |-> st.reached]

\* lines 213-224: keep the path, branch a copy per other word, extend it
ExtendAndBranch(h, paths, reached, id, validNextWords) ==
    LET word == Last(validNextWords)
        st   == BranchFrom([heap |-> h, paths |-> Append(paths, id), reached |-> reached],
                           id, Front(validNextWords), 1)
    IN  [heap    |-> AddWord(st.heap, id, word),
         paths   |-> st.paths,
         reached |-> Append(st.reached, word)]

\* line 193 and the start of the loop of line 195
ExtendPathsBegin ==
    /\ pc = "while"
    /\ ~finished
    /\ localPaths' = <<>>
    /\ idx' = 1
    /\ rounds' = rounds + 1
    /\ pc' = "for"
    /\ UNCHANGED <<dictionary, instance, session, op, args, dict0, result, calls>>

\* one turn of the loop of lines 195-224, for the path searchPaths[idx]
ExtendPathsStep ==
    /\ pc = "for"
    /\ idx <= Len(searchPaths)
    /\ LET id   == searchPaths[idx]
           look == GetTransformableWords(dictionary, hashedWords, Last(heap[id]))
       IN  IF look.err # "none"
           THEN \* the exception leaves __extendPaths and the query
                /\ result' = Raised(look.err)
                /\ pc' = "idle"
                /\ UNCHANGED <<hashedWords, session, round>>
           ELSE /\ hashedWords' = IndexAfterLookup(hashedWords, Last(heap[id]))
                /\ \E nextWords \in Perms(look.words) :
                   LET validNextWords == ValidNextWords(nextWords, reachedWords)
                   IN  IF validNextWords = <<>>
                       THEN \* lines 203-205: dead end
                            /\ idx' = idx + 1
                            /\ UNCHANGED <<session, localPaths, rounds, pc, result>>
                       ELSE IF TargetFound(targetWord[1], validNextWords)
                       THEN \* lines 206-211: found the target
                            /\ successfulPath' = id
                            /\ heap' = AddWord(heap, id, targetWord[1])
                            /\ finished' = TRUE
                            /\ pc' = "break"
                            /\ UNCHANGED <<targetWord, reachedWords, searchPaths, round,
                                           result>>
                       ELSE \* lines 212-224
                            LET st == ExtendAndBranch(heap, localPaths, reachedWords, id,
                                                      validNextWords)
                            IN  /\ heap' = st.heap
                                /\ localPaths' = st.paths
                                /\ reachedWords' = st.reached
                                /\ idx' = idx + 1
                                /\ UNCHANGED <<targetWord, searchPaths, successfulPath,
                                               finished, rounds, pc, result>>
    /\ UNCHANGED <<dictionary, built, op, args, dict0, calls>>

\* lines 225-227, after the loop ended or broke
ExtendPathsEnd ==
    /\ \/ pc = "for" /\ idx > Len(searchPaths)
       \/ pc = "break"
    /\ searchPaths' = localPaths
    /\ finished' = (finished \/ localPaths = <<>>)
    /\ pc' = "while"
    /\ UNCHANGED <<dictionary, instance, targetWord, reachedWords, heap, successfulPath,
                   round, op, args, dict0, result, calls>>

----------------------------------------------------------------------------
(* DictionaryDash, lines 150-187 *)

\* DictionaryDash(dictionary), lines 157-161
Construct ==
    /\ pc = "idle"
    /\ ~built
    /\ calls = 0
    /\ op = "none"
    /\ op' = "construct"
    /\ args' = NoArgs
    /\ dict0' = dictionary
    /\ LET index == OrganisedDictionaryInit(dictionary)
       IN  IF index.err # "none"
           THEN /\ result' = Raised(index.err)
                /\ UNCHANGED instance
           ELSE /\ result' = Returned("object", 0, <<>>)
                /\ built' = TRUE
                /\ hashedWords' = index.hashed
    /\ UNCHANGED <<dictionary, session, round, pc, calls>>

ResetSessionKeepReached(startWord, endWord) ==
    /\ targetWord' = <<endWord>>
    /\ reachedWords' = Append(reachedWords, startWord)
    /\ heap' = NewHeap(startWord)
    /\ searchPaths' = <<1>>
    /\ successfulPath' = 0
    /\ finished' = FALSE

ResetSessionFromEnd(startWord, endWord) ==
    /\ targetWord' = <<startWord>>
    /\ reachedWords' = <<endWord>>
    /\ heap' = NewHeap(endWord)
    /\ searchPaths' = <<1>>
    /\ successfulPath' = 0
    /\ finished' = FALSE

\* lines 175-179
ResetSession(startWord, endWord) ==
    /\ targetWord' = <<endWord>>
    /\ reachedWords' = <<startWord>>
    /\ heap' = NewHeap(startWord)
    /\ searchPaths' = <<1>>
    /\ successfulPath' = 0
    /\ finished' = FALSE

\* getShortestTransformationSequence(startWord, endWord) up to its loop
Query ==
    /\ pc = "idle"
    /\ built
    /\ calls < MaxCalls
    /\ \E startWord, endWord \in Words :
        /\ args' = [word1 |-> startWord, word2 |-> endWord]
        /\ ResetSession(startWord, endWord)
    /\ op' = "query"
    /\ dict0' = dictionary
    /\ result' = NoResult
    /\ rounds' = 0
    /\ calls' = calls + 1
    /\ pc' = "while"
    /\ UNCHANGED <<dictionary, instance, localPaths, idx>>

\* line 187 of the query
Return ==
    /\ pc = "while"
    /\ finished
    /\ op = "query"
    /\ result' = IF successfulPath = 0 THEN Returned("None", 0, <<>>)
                 ELSE Returned("path", NumTransformations(heap[successfulPath]),
                               heap[successfulPath])
    /\ pc' = "idle"
    /\ UNCHANGED <<dictionary, instance, session, round, op, args, dict0, calls>>

\* getTransformableWords(word) on the instance's OrganisedDictionary
Lookup ==
    /\ pc = "idle"
    /\ built
    /\ calls < MaxCalls
    /\ \E word \in Words :
        /\ args' = [word1 |-> word, word2 |-> <<>>]
        /\ LET look == GetTransformableWords(dictionary, hashedWords, word)
           IN  IF look.err # "none"
               THEN /\ result' = Raised(look.err)
                    /\ UNCHANGED hashedWords
               ELSE /\ hashedWords' = IndexAfterLookup(hashedWords, word)
                    /\ \E transformableWords \in Perms(look.words) :
                           result' = Returned("list", 0, transformableWords)
    /\ op' = "lookup"
    /\ dict0' = dictionary
    /\ calls' = calls + 1
    /\ UNCHANGED <<dictionary, built, session, round, pc>>

----------------------------------------------------------------------------
(* lengthOfShortestTransform, lines 229-248 *)

AppendMissingBoth(startWord, endWord, dict) ==
    LET withStart == IF ~In(startWord, dict) THEN Append(dict, startWord) ELSE dict
    IN  IF ~In(endWord, dict) THEN Append(withStart, endWord) ELSE withStart

\* lines 240-243
AppendMissing(startWord, endWord, dict) ==
    LET withStart == IF ~In(startWord, dict) THEN Append(dict, startWord) ELSE dict
    IN  IF ~In(endWord, withStart) THEN Append(withStart, endWord) ELSE withStart

LengthOfShortestTransformRollback ==
    /\ pc = "idle"
    /\ op = "none"
    /\ \E startWord, endWord \in Words :
        /\ args' = [word1 |-> startWord, word2 |-> endWord]
        /\ LET appended == AppendMissing(startWord, endWord, dictionary)
               index    == OrganisedDictionaryInit(appended)
           IN  IF index.err # "none"
               THEN /\ dictionary' = dictionary
                    /\ result' = Raised(index.err)
                    /\ pc' = "idle"
                    /\ UNCHANGED <<instance, session>>
               ELSE /\ dictionary' = appended
                    /\ built' = TRUE
                    /\ hashedWords' = index.hashed
                    /\ ResetSession(startWord, endWord)
                    /\ result' = NoResult
                    /\ pc' = "while"
    /\ op' = "length"
    /\ dict0' = dictionary
    /\ rounds' = 0
    /\ calls' = calls + 1
    /\ UNCHANGED <<localPaths, idx>>

\* lines 240-245 up to the loop of the query
LengthOfShortestTransform ==
    /\ pc = "idle"
    /\ op = "none"
    /\ \E startWord, endWord \in Words :
        /\ args' = [word1 |-> startWord, word2 |-> endWord]
        /\ dictionary' = AppendMissing(startWord, endWord, dictionary)
        /\ LET index == OrganisedDictionaryInit(dictionary')
           IN  IF index.err # "none"
               THEN /\ result' = Raised(index.err)
                    /\ pc' = "idle"
                    /\ UNCHANGED <<instance, session>>
               ELSE /\ built' = TRUE
                    /\ hashedWords' = index.hashed
                    /\ ResetSession(startWord, endWord)
                    /\ result' = NoResult
                    /\ pc' = "while"
    /\ op' = "length"
    /\ dict0' = dictionary
    /\ rounds' = 0
    /\ calls' = calls + 1
    /\ UNCHANGED <<localPaths, idx>>

\* lines 246-248; the local DictionaryDash is dropped
LengthReturn ==
    /\ pc = "while"
    /\ finished
    /\ op = "length"
    /\ result' = IF successfulPath = 0 THEN Returned("int", -1, <<>>)
                 ELSE Returned("int", NumTransformations(heap[successfulPath]), <<>>)
    /\ pc' = "idle"
    /\ built' = FALSE
    /\ hashedWords' = EmptyIndex
    /\ targetWord' = <<>>
    /\ reachedWords' = <<>>
    /\ heap' = <<>>
    /\ searchPaths' = <<>>
    /\ successfulPath' = 0
    /\ finished' = FALSE
    /\ UNCHANGED <<dictionary, round, op, args, dict0, calls>>

----------------------------------------------------------------------------
(* The caller *)

\* legalTransformation(word1, word2) on the arguments drawn at the start
LegalCall ==
    /\ pc = "idle"
    /\ op = "none"
    /\ result' = Returned("bool", IF legalTransformation(args.word1, args.word2) THEN 1 ELSE 0,
                          <<>>)
    /\ op' = "legal"
    /\ calls' = calls + 1
    /\ UNCHANGED <<dictionary, instance, session, round, pc, args, dict0>>

InitRest ==
    /\ built = FALSE
    /\ hashedWords = EmptyIndex
    /\ targetWord = <<>>
    /\ reachedWords = <<>>
    /\ heap = <<>>
    /\ searchPaths = <<>>
    /\ successfulPath = 0
    /\ finished = FALSE
    /\ localPaths = <<>>
    /\ idx = 0
    /\ pc = "idle"
    /\ op = "none"
    /\ result = NoResult
    /\ rounds = 0
    /\ calls = 0

\* the caller holds a list of words and no DictionaryDash yet
Init ==
    /\ dictionary \in ListsUpTo(MaxDict)
    /\ dict0 = dictionary
    /\ args = NoArgs
    /\ InitRest

\* the caller holds a list of words to hand to lengthOfShortestTransform
InitLength ==
    /\ dictionary \in ListsUpTo(MaxGiven)
    /\ dict0 = dictionary
    /\ args = NoArgs
    /\ InitRest

\* the caller holds two words
InitLegal ==
    /\ dictionary = <<>>
    /\ dict0 = <<>>
    /\ args \in [word1 : AnyWords, word2 : AnyWords]
    /\ InitRest

\* a DictionaryDash, queried and looked up
Next ==
    \/ Construct
    \/ Query
    \/ ExtendPathsBegin
    \/ ExtendPathsStep
    \/ ExtendPathsEnd
    \/ Return
    \/ Lookup

Spec == Init /\ [][Next]_vars

\* the entry point lengthOfShortestTransform
NextLength ==
    \/ LengthOfShortestTransform
    \/ ExtendPathsBegin
    \/ ExtendPathsStep
    \/ ExtendPathsEnd
    \/ LengthReturn

SpecLength == InitLength /\ [][NextLength]_vars

SpecLegal == InitLegal /\ [][LegalCall]_vars

----------------------------------------------------------------------------
(* What the properties are stated with *)

\* two words of one length that differ at exactly one position
OneLetterApart(u, v) ==
    /\ Len(u) = Len(v)
    /\ Cardinality({i \in 1..Len(u) : u[i] # v[i]}) = 1

\* the least number of one-letter steps from the words of `frontier`, which
\* are k steps from the start, to t through the words of S; -1 if none
RECURSIVE StepsFrom(_, _, _, _, _)
StepsFrom(S, frontier, seen, t, k) ==
    IF t \in frontier THEN k
    ELSE LET next == {v \in S \ seen : \E u \in frontier : OneLetterApart(u, v)}
         IN  IF next = {} THEN -1
             ELSE StepsFrom(S, next, seen \cup next, t, k + 1)

\* the length of the shortest ladder from s to t through the words of dict
Distance(dict, s, t) == StepsFrom(Range(dict), {s}, {s}, t, 0)

QueryReturned == op = "query" /\ pc = "idle" /\ result.kind \in {"None", "path"}

LengthReturned == op = "length" /\ pc = "idle" /\ result.kind = "int"

----------------------------------------------------------------------------
(* Properties *)

\* C1: a query between two distinct member words, the second reachable from
\* the first, returns a path with as many transformations as the shortest
\* ladder has, whatever the iteration orders were
ShortestPathReturned ==
    (/\ op = "query" /\ pc = "idle"
     /\ args.word1 # args.word2
     /\ In(args.word1, dictionary) /\ In(args.word2, dictionary)
     /\ Distance(dictionary, args.word1, args.word2) >= 0)
    => /\ result.kind = "path"
       /\ result.num = Distance(dictionary, args.word1, args.word2)

\* a ladder of two transformations was returned where the start word had
\* two next words
ShortestPathWitness ==
    /\ QueryReturned
    /\ result.kind = "path"
    /\ result.num = 2
    /\ Cardinality({v \in Range(dictionary) : OneLetterApart(args.word1, v)}) = 2

\* C2: a returned path starts with startWord, ends with endWord, holds
\* dictionary words only, and each word is a legal transformation of the
\* one before
ReturnedPathIsLadder ==
    (QueryReturned /\ result.kind = "path")
    => /\ result.words[1] = args.word1
       /\ Last(result.words) = args.word2
       /\ \A i \in DOMAIN result.words : In(result.words[i], dictionary)
       /\ \A i \in 1..(Len(result.words) - 1) :
              legalTransformation(result.words[i], result.words[i + 1])

\* a path of three words was returned from a dictionary in which two masked
\* words share a bucket
ReturnedPathWitness ==
    /\ QueryReturned
    /\ result.kind = "path"
    /\ Len(result.words) = 3
    /\ \E h \in DOMAIN hashedWords : \E u, v \in hashedWords[h] :
           u # v /\ ~legalTransformation(u, v)

\* C3: lengthOfShortestTransform returns -1 when no ladder leads from
\* startWord to endWord through the augmented dictionary, and the length of
\* the shortest ladder otherwise
LengthIsShortestOrMinusOne ==
    LengthReturned
    => result.num = Distance(dictionary, args.word1, args.word2)

\* C4: a query from a word to itself returns the path of that word alone,
\* zero transformations, without a search round
SameWordZeroTransformations ==
    (QueryReturned /\ args.word1 = args.word2 /\ In(args.word1, dictionary))
    => /\ result.kind = "path"
       /\ result.num = 0
       /\ rounds = 0

\* C5: a query from a member word to a word no ladder leads to never raises
\* and never finds a path, each of its steps is followed by another until it
\* returns, it calls __extendPaths at most len(dictionary) times, and it
\* returns None with the finished flag set, no successful path and an empty
\* path list
UnreachableQueryExhausts ==
    (/\ op = "query"
     /\ In(args.word1, dictionary)
     /\ Distance(dictionary, args.word1, args.word2) < 0)
    => /\ rounds <= Len(dictionary)
       /\ result.kind \in {"none", "None"}
       /\ pc # "idle" => ENABLED Next
       /\ pc = "idle" => /\ result.kind = "None"
                         /\ finished
                         /\ successfulPath = 0
                         /\ searchPaths = <<>>

\* a query for an unreachable word returned after as many rounds as the
\* dictionary has words, three or more
UnreachableQueryWitness ==
    /\ QueryReturned
    /\ In(args.word1, dictionary)
    /\ Distance(dictionary, args.word1, args.word2) < 0
    /\ result.kind = "None"
    /\ rounds = Len(dictionary)
    /\ rounds >= 3

\* C6: every query starts from a session holding its own words only, and the
\* outcome of every query, the first on the instance or a later one, is the
\* same function of the dictionary and the two words
QueryOutcomeIgnoresEarlierQueries ==
    /\ (op = "query" /\ pc = "while" /\ rounds = 0)
       => /\ targetWord = <<args.word2>>
          /\ reachedWords = <<args.word1>>
          /\ heap = <<<<args.word1>>>>
          /\ searchPaths = <<1>>
          /\ successfulPath = 0
          /\ ~finished
    /\ (op = "query" /\ pc = "idle")
       => IF ~In(args.word1, dictionary)
          THEN result = Raised("AssertionError")
          ELSE IF args.word1 # args.word2
                  /\ Distance(dictionary, args.word1, args.word2) >= 0
          THEN result.kind = "path"
               /\ result.num = Distance(dictionary, args.word1, args.word2)
          ELSE result.kind = "None"

\* the second query of an instance found a path, after a first one that
\* had left reached words, a successful path and the finished flag behind
SecondQueryWitness ==
    /\ QueryReturned
    /\ calls = 2
    /\ result.kind = "path"
    /\ result.num = 2

\* C7: from its call on, lengthOfShortestTransform has changed the caller's
\* list into the list it was given, then startWord if that list lacked it,
\* then endWord if that list lacked it and it is not startWord
OnlyMissingWordsAppended ==
    op = "length"
    => dictionary =
         dict0
         \o (IF In(args.word1, dict0) THEN <<>> ELSE <<args.word1>>)
         \o (IF In(args.word2, dict0) \/ args.word2 = args.word1
             THEN <<>> ELSE <<args.word2>>)

\* a call returned that had appended one word, for a startWord and an
\* endWord that were the same missing word
AppendedOnceWitness ==
    /\ LengthReturned
    /\ args.word1 = args.word2
    /\ ~In(args.word1, dict0)
    /\ Len(dict0) = 2
    /\ Len(dictionary) = 3

\* C8: a lookup of a member word returns a list, without repetition, of
\* exactly the dictionary words one letter apart from it
LookupReturnsOneLetterNeighbours ==
    (op = "lookup" /\ In(args.word1, dictionary))
    => /\ result.kind = "list"
       /\ Range(result.words) =
              {v \in Range(dictionary) : OneLetterApart(args.word1, v)}
       /\ \A i, j \in DOMAIN result.words :
              result.words[i] = result.words[j] => i = j
       /\ ~In(args.word1, result.words)

\* a lookup returned two words and left out a word that shares a bucket
\* with the looked-up word
LookupWitness ==
    /\ op = "lookup"
    /\ result.kind = "list"
    /\ Len(result.words) = 2
    /\ \E h \in DOMAIN hashedWords :
           /\ args.word1 \in hashedWords[h]
           /\ \E v \in hashedWords[h] : v # args.word1 /\ ~In(v, result.words)

\* C9: legalTransformation is true exactly of two words of one length, not
\* zero, that differ at exactly one position
LegalIffOneLetterApart ==
    op = "legal"
    => (result.num = 1 <=>
          /\ Len(args.word1) = Len(args.word2)
          /\ Len(args.word1) # 0
          /\ \E i \in 1..Len(args.word1) :
                /\ args.word1[i] # args.word2[i]
                /\ \A j \in 1..Len(args.word1) :
                       j # i => args.word1[j] = args.word2[j])

\* legalTransformation returned False for two words of one length that
\* differ at two positions
LegalWitness ==
    /\ op = "legal"
    /\ result.num = 0
    /\ Len(args.word1) = Len(args.word2)
    /\ Cardinality({i \in 1..Len(args.word1) : args.word1[i] # args.word2[i]}) = 2

\* C10: constructing from a non-empty list raises ValueError exactly when a
\* word differs in length from the first; then no instance exists, and
\* otherwise one does
ConstructRaisesIffMixedLengths ==
    (op = "construct" /\ dictionary # <<>>)
    => LET mixed == \E i \in DOMAIN dictionary : Len(dictionary[i]) # Len(dictionary[1])
       IN  /\ mixed => result = Raised("ValueError") /\ ~built
           /\ ~mixed => result.kind = "object" /\ built

\* construction raised for a list whose last word alone is shorter than the
\* first
ConstructRaisedWitness ==
    /\ op = "construct"
    /\ result = Raised("ValueError")
    /\ Len(dictionary) = 3
    /\ Len(dictionary[1]) = 2 /\ Len(dictionary[2]) = 2 /\ Len(dictionary[3]) = 1

\* C11: a lookup of a word that is not in the dictionary raises the
\* assertion of line 79 and returns no list, and a query whose startWord is
\* not in the dictionary raises it in its first round and returns neither a
\* path nor None
NonMemberLookupRaises ==
    /\ (op = "lookup" /\ ~In(args.word1, dictionary))
       => result = Raised("AssertionError")
    /\ (op = "query" /\ ~In(args.word1, dictionary))
       => /\ rounds <= 1
          /\ result.kind \in {"none", "raise"}
          /\ pc # "idle" => ENABLED Next
          /\ pc = "idle" => result = Raised("AssertionError") /\ rounds = 1

\* a query raised in its first round for a startWord of the dictionary's
\* word length that the dictionary, of three words, does not hold
NonMemberQueryWitness ==
    /\ op = "query"
    /\ pc = "idle"
    /\ result = Raised("AssertionError")
    /\ rounds = 1
    /\ Len(dictionary) = 3
    /\ Len(args.word1) = Len(dictionary[1])
    /\ ~In(args.word1, dictionary)

\* the paths that a step created or appended to
Touched(i) == i \notin DOMAIN heap \/ heap'[i] # heap[i]

\* C12: the reached words never hold a word twice; a turn of the loop of
\* __extendPaths appends to paths only words that were not reached, and no
\* word to two paths; and when a round ends no two tracked paths end with
\* the same word
EachWordClaimedOnce ==
    /\ [](\A i, j \in DOMAIN reachedWords : reachedWords[i] = reachedWords[j] => i = j)
    /\ []((op = "query" /\ pc = "while")
          => \A i, j \in DOMAIN searchPaths :
                 Last(heap[searchPaths[i]]) = Last(heap[searchPaths[j]]) => i = j)
    /\ [][pc = "for"
          => \A i \in DOMAIN heap' :
                 Touched(i)
                 => /\ ~In(Last(heap'[i]), reachedWords)
                    /\ \A j \in DOMAIN heap' \ {i} :
                           Touched(j) => Last(heap'[j]) # Last(heap'[i])]_vars

\* after the second round one path is tracked, and its last word is a legal
\* next word of two words that two paths of that round ended with
ClaimedOnceWitness ==
    /\ op = "query"
    /\ pc = "while"
    /\ rounds = 2
    /\ ~finished
    /\ Len(searchPaths) = 1
    /\ Len(reachedWords) = 4
    /\ OneLetterApart(reachedWords[2], Last(heap[searchPaths[1]]))
    /\ OneLetterApart(reachedWords[3], Last(heap[searchPaths[1]]))

\* C13: when the k-th call of __extendPaths of a query starts (k from 0),
\* every tracked path has k transformations; inside it the paths not yet
\* visited have k, the paths kept for the next round, extended in place or
\* copied, have k + 1, and so has the path that found the target
PathsOfARoundHaveItsLength ==
    (op = "query" /\ pc # "idle")
    => /\ (pc = "while" /\ ~finished)
          => \A i \in DOMAIN searchPaths : Len(heap[searchPaths[i]]) = rounds + 1
       /\ pc \in {"for", "break"}
          => \A i \in DOMAIN localPaths : Len(heap[localPaths[i]]) = rounds + 1
       /\ pc = "for"
          => \A i \in idx..Len(searchPaths) : Len(heap[searchPaths[i]]) = rounds
       /\ successfulPath # 0
          => Len(heap[successfulPath]) = rounds + 1

\* the first call of __extendPaths of an instance's second query is about
\* to end with a path that was extended in place and a copy branched from it
RoundLengthWitness ==
    /\ op = "query"
    /\ pc = "for"
    /\ calls = 2
    /\ rounds = 1
    /\ idx > Len(searchPaths)
    /\ Len(localPaths) = 2
    /\ localPaths[1] \in Range(searchPaths)
    /\ localPaths[2] \notin Range(searchPaths)
    /\ Front(heap[localPaths[1]]) = Front(heap[localPaths[2]])

\* C14: a turn of the loop of __extendPaths on a path changes no other
\* path, appends at most one word to that path, and makes every new path
\* the words that path had before the turn followed by one word; the paths
\* kept for the next round are distinct objects
CopiesShareNoStorage ==
    [][(pc = "for" /\ idx <= Len(searchPaths))
       => LET id == searchPaths[idx]
          IN  /\ \A i \in DOMAIN heap \ {id} : heap'[i] = heap[i]
              /\ \/ heap'[id] = heap[id]
                 \/ Front(heap'[id]) = heap[id]
              /\ \A i \in DOMAIN heap' \ DOMAIN heap :
                     /\ Front(heap'[i]) = heap[id]
                     /\ Last(heap'[i]) # Last(heap'[id])
              /\ \A i, j \in DOMAIN localPaths' :
                     localPaths'[i] = localPaths'[j] => i = j]_vars

\* a path was extended again after a copy had been branched from it, and
\* the copy still holds the two words it was made with
CopyUnchangedWitness ==
    /\ op = "query"
    /\ Len(heap) = 2
    /\ Len(heap[1]) = 3
    /\ Len(heap[2]) = 2
    /\ heap[2][1] = heap[1][1]
    /\ heap[2][2] # heap[1][2]

\* the buckets that hold a word
BucketsOf(word) == {h \in DOMAIN hashedWords : word \in hashedWords[h]}

Constructed == op = "construct" /\ built

\* C15 as stated: after construction every dictionary word is a member of
\* exactly len(word) buckets
EveryWordInLenBuckets ==
    Constructed
    => \A i \in DOMAIN dictionary :
           Cardinality(BucketsOf(dictionary[i])) = Len(dictionary[i])

\* C15, amended: after construction every dictionary word is a member of
\* exactly the buckets keyed by the hash numbers of its masked variants, one
\* variant per letter position: at least one bucket, at most len(word), and
\* fewer than len(word) when it holds '_' at two positions
EveryWordInItsMaskBuckets ==
    Constructed
    => \A i \in DOMAIN dictionary :
           LET word == dictionary[i]
           IN  /\ BucketsOf(word) = {Hash(EditWord(word, k)) : k \in 1..Len(word)}
               /\ Cardinality(BucketsOf(word)) >= 1
               /\ Cardinality(BucketsOf(word)) <= Len(word)
               /\ (\E k, l \in 1..Len(word) : k # l /\ word[k] = "_" /\ word[l] = "_")
                  => Cardinality(BucketsOf(word)) < Len(word)

\* an index was built of a word of two '_', held by one bucket, and a word
\* of two letters held by two buckets
MaskBucketsWitness ==
    /\ Constructed
    /\ In(<<"_", "_">>, dictionary)
    /\ Cardinality(BucketsOf(<<"_", "_">>)) = 1
    /\ \E i \in DOMAIN dictionary :
           Len(dictionary[i]) = 2 /\ Cardinality(BucketsOf(dictionary[i])) = 2

\* C16: the index built from a list is the index built from any other
\* list of the same words, in any order and with any repetition, and the
\* lookups of its words return the same sets
IndexIgnoresOrderAndDuplicates ==
    Constructed
    => \A other \in ListsUpTo(MaxDict) :
           Range(other) = Range(dictionary)
           => /\ OrganisedDictionaryInit(other) = [err |-> "none", hashed |-> hashedWords]
              /\ \A i \in DOMAIN dictionary :
                     GetTransformableWords(other, OrganisedDictionaryInit(other).hashed,
                                           dictionary[i])
                     = GetTransformableWords(dictionary, hashedWords, dictionary[i])

\* an index was built from a list of four words that repeats a word and
\* has a bucket of two words
OrderAndDuplicatesWitness ==
    /\ Constructed
    /\ Len(dictionary) = 4
    /\ Cardinality(Range(dictionary)) = 3
    /\ dictionary[1] = dictionary[3]
    /\ \E h \in DOMAIN hashedWords : Cardinality(hashedWords[h]) >= 2

\* C17: no step taken while a DictionaryDash exists, a lookup or any step of
\* a query, changes its mapping of hash numbers to word sets or its word
\* list, and the instance stays
IndexNeverModifiedByUse ==
    [][built => /\ hashedWords' = hashedWords
                /\ dictionary' = dictionary
                /\ built']_vars

\* the second query of an instance returned a path of two transformations,
\* found by lookups in buckets of two or more words
IndexUsedWitness ==
    /\ QueryReturned
    /\ calls = 2
    /\ result.kind = "path"
    /\ result.num = 2
    /\ \E h \in DOMAIN hashedWords : Cardinality(hashedWords[h]) >= 2
    /\ hashedWords = OrganisedDictionaryInit(dictionary).hashed

\* the words k one-letter steps from s through the words of dict; s itself
\* is the only word at 0 steps
WordsAtDistance(dict, s, k) == {w \in Words : Distance(dict, s, w) = k}

\* the last words of the paths that searchPaths holds
FrontierWords == {Last(heap[searchPaths[i]]) : i \in DOMAIN searchPaths}

\* C18: in a query for a startWord other than its endWord, when __extendPaths
\* is about to be invoked for the k-th time (k = 0 first), the last words of
\* the tracked paths are exactly the words at distance k from startWord, one
\* path each, and reachedWords holds exactly the words at distance at most k
FrontierIsDistanceLayer ==
    (op = "query" /\ pc = "while" /\ ~finished /\ args.word1 # args.word2)
    => /\ FrontierWords = WordsAtDistance(dictionary, args.word1, rounds)
       /\ Len(searchPaths) = Cardinality(FrontierWords)
       /\ Range(reachedWords)
            = UNION {WordsAtDistance(dictionary, args.word1, k) : k \in 0..rounds}
       /\ rounds >= 1 => FrontierWords \subseteq Range(dictionary)

\* the third invocation is about to start: the first branched a copy, the
\* second dropped a dead end, and one path to the fourth word is left
SecondLayerWitness ==
    /\ op = "query"
    /\ pc = "while"
    /\ ~finished
    /\ args.word1 # args.word2
    /\ rounds = 2
    /\ Len(heap) = 2
    /\ Len(searchPaths) = 1
    /\ Cardinality(Range(reachedWords)) = 4

\* C19: a query from a member startWord for an endWord that the dictionary
\* does not hold never raises: every word it puts on a path, and so every
\* word it looks up, is a member, the endWord is none of them, each step is
\* followed by another until the query returns, and it returns None
NonMemberTargetReturnsNone ==
    (/\ op = "query"
     /\ In(args.word1, dictionary)
     /\ ~In(args.word2, dictionary))
    => /\ result.kind \in {"none", "None"}
       /\ \A i \in DOMAIN heap : Range(heap[i]) \subseteq Range(dictionary)
       /\ ~In(args.word2, reachedWords)
       /\ pc # "idle" => ENABLED (ExtendPathsBegin \/ ExtendPathsStep
                                    \/ ExtendPathsEnd \/ Return)
       /\ pc = "idle" => result = Returned("None", 0, <<>>)

\* a query returned None for an endWord one letter from its startWord that
\* is missing from a dictionary of three words, all of them reached
NonMemberTargetWitness ==
    /\ QueryReturned
    /\ result.kind = "None"
    /\ In(args.word1, dictionary)
    /\ ~In(args.word2, dictionary)
    /\ OneLetterApart(args.word1, args.word2)
    /\ Cardinality(Range(dictionary)) = 3
    /\ Range(reachedWords) = Range(dictionary)

\* lengthOfShortestTransform raised the ValueError of the construction
LengthRaisedValueError == op = "length" /\ pc = "idle" /\ result = Raised("ValueError")

\* C20 as stated: whenever lengthOfShortestTransform raised the ValueError,
\* the caller's list is not the list it was given
ValueErrorChangesList ==
    LengthRaisedValueError
    => /\ dictionary # dict0
       /\ Len(dictionary) > Len(dict0)

\* C20: when lengthOfShortestTransform raised the ValueError, the caller's
\* list is the list it was given followed by the missing ones of startWord
\* and endWord, still appended, so it differs from the given list exactly
\* when one of the two words was missing from it
ValueErrorKeepsAppendedWords ==
    LengthRaisedValueError
    => /\ \E added \in {<<>>, <<args.word1>>, <<args.word2>>,
                        <<args.word1, args.word2>>} :
            /\ dictionary = dict0 \o added
            /\ Range(added) = {args.word1, args.word2} \ Range(dict0)
            /\ Len(added) = Cardinality(Range(added))
       /\ dictionary = dict0 <=> (In(args.word1, dict0) /\ In(args.word2, dict0))
       /\ ~built

\* the ValueError was raised after two missing words of different lengths
\* were appended to a list of words of one length
BothAppendedWitness ==
    /\ LengthRaisedValueError
    /\ Len(dict0) = 2
    /\ Len(dictionary) = 4
    /\ Len(dict0[1]) = Len(dict0[2])
    /\ Len(args.word1) # Len(args.word2)

====
